---- MODULE Spec2Model ----
(***************************************************************************)
(* Local service lifecycle orchestrator of chaos-backend-service:          *)
(* scripts/service_utils.py (ServiceUtils) and scripts/simple_deploy.py    *)
(* (SimpleDeployer, main).  One control thread runs one command and exits; *)
(* the operating system's process table, the build tool, the file system   *)
(* and the health endpoints are the environment, whose answers are chosen  *)
(* nondeterministically at the step that asks for them.                    *)
(***************************************************************************)
EXTENDS Integers, Sequences, FiniteSets, TLC

(***************************************************************************)
(* Bounds of the model.                                                    *)
(***************************************************************************)
\* longest explicit list of service ids given to a command
MaxIds == 2
\* most processes alive in the process table before the command starts
MaxPre == 1
\* most adverse answers of the environment in one run: a scan that skips a
\* process, a signal that raises, a wait that times out, a failed build, a
\* missing or unreadable file, a launch that fails, a health request that is
\* not answered with 200
MaxFaults == 1
\* most polling rounds of wait_for_services before its timeout has elapsed
MaxRounds == 2
\* most connections in the table find_process_by_port scans
MaxConns == 3

(***************************************************************************)
(* The service registry, ServiceUtils.__init__.                            *)
(***************************************************************************)
\* list(self.services.keys()): the insertion order of the dict
ServiceKeys == <<"api-gateway", "user-management", "chaos-backend",
                 "content-management-service">>

ServiceIds == {ServiceKeys[k] : k \in 1..Len(ServiceKeys)}

\* a variant in which two descriptors have the same port
services_shared_port ==
    [s \in ServiceIds |->
        CASE s = "api-gateway"     -> [exe |-> "api-gateway.exe", port |-> 8080]
          [] s = "user-management" -> [exe |-> "user-management.exe", port |-> 8082]
          [] s = "chaos-backend"   -> [exe |-> "chaos-backend.exe", port |-> 8080]
          [] OTHER                 -> [exe |-> "content-management-service.exe",
                                       port |-> 8083]]

services ==
    [s \in ServiceIds |->
        CASE s = "api-gateway"     -> [exe |-> "api-gateway.exe", port |-> 8080]
          [] s = "user-management" -> [exe |-> "user-management.exe", port |-> 8082]
          [] s = "chaos-backend"   -> [exe |-> "chaos-backend.exe", port |-> 8081]
          [] OTHER                 -> [exe |-> "content-management-service.exe",
                                       port |-> 8083]]

\* an id that is not a key of the registry
UnknownId == "bogus"

\* the ids an explicit list is drawn from: two services, named by the caller
\* in either order (api-gateway is last in the start order and has the lowest
\* port), and the unknown id; the other two services are outside every
\* explicit list
ArgIds == {"api-gateway", "user-management", UnknownId}

(***************************************************************************)
(* Python values.                                                          *)
(***************************************************************************)
\* service_ids: List[str] = None
None == [given |-> FALSE, ids |-> <<>>]

List(seq) == [given |-> TRUE, ids |-> seq]

\* truth value of `if service_ids:`
Truthy(service_ids) == service_ids.given /\ service_ids.ids # <<>>

Range(seq) == {seq[k] : k \in 1..Len(seq)}

SeqsUpTo(S, n) == UNION {[1..k -> S] : k \in 0..n}

(***************************************************************************)
(* State.                                                                  *)
(***************************************************************************)
VARIABLES
    entry,       \* "main": simple_deploy.py run from the command line;
                 \* "call": the SimpleDeployer method called directly
    command,     \* sys.argv[1]
    service_ids, \* sys.argv[2:] or None: the service_ids of the command
    pc,          \* position of the control thread
    stage,       \* the ServiceUtils stage that is running or has just returned
    arg,         \* the service_ids argument of the running ServiceUtils call
    ids,         \* the list the running ServiceUtils loop iterates over
    i,           \* index of that loop
    success,     \* the local `success` of the running ServiceUtils call
    ret,         \* value returned by the last ServiceUtils call
    rets,        \* the values returned by the ServiceUtils stages, in order
    result,      \* value returned by the SimpleDeployer method: "none" until then
    exit_code,   \* argument of sys.exit: -1 until the process has exited
    procs,       \* the process table, indexed by pid
    cur,         \* pid of `process` in stop_service_by_port / _by_name, 0 if none
    matches,     \* `processes` of stop_service_by_name
    j,           \* index of the loop over `processes`
    nsuccess,    \* the local `success` of stop_service_by_name
    calls,       \* terminate/kill calls made on `process` in the current stop
    gwait,       \* how process.wait(timeout=10) ended for `process`
    left,        \* polling rounds that still fit into the timeout of the running
                 \* wait_for_services
    status,      \* `status` of wait_for_services: its last get_service_status()
    faults,      \* adverse answers the environment has given so far
    dst_exe,     \* per service: the executable in the service directory
    dst_cfg,     \* per service: the configuration directory in the service directory
    terminated,  \* pids process.terminate() was called on
    killed,      \* pids process.kill() was called on
    launched,    \* service ids passed to subprocess.Popen, in order
    probed,      \* service ids a health request was sent for
    stages,      \* ServiceUtils stages entered, in order
    builds,      \* service ids cargo build was run for, in order
    up,          \* services whose /health has begun to answer 200 for good
    answers,     \* what the endpoints answered to the requests behind `status`
    stops,       \* stop_service_by_port / _by_name calls returned, in order
    cfg_log,     \* what copy_config_files found and did, per loop iteration
    copy_log,    \* what copy_services found and did, per loop iteration
    conns,       \* psutil.net_connections(kind='inet'), for find_process_by_port
                 \* run on its own
    scm,         \* the Windows services `sc` controls: RUNNING or STOPPED each
    admin,       \* IsUserAnAdmin() of the process that runs the scripts
    success_count \* the local `success_count` of stop_services.py and
                 \* start_services.py

vars == <<entry, command, service_ids, pc, stage, arg, ids, i, success, ret, rets,
          result, exit_code, procs, cur, matches, j, nsuccess, calls, gwait,
          left, status, faults, dst_exe, dst_cfg,
          terminated, killed, launched, probed, stages, builds,
          up, answers, stops, cfg_log, copy_log,
          conns, scm, admin, success_count>>

\* everything the process-stopping steps leave alone
others == <<entry, command, service_ids, stage, arg, ids, ret, rets, result,
            exit_code, left, status, dst_exe, dst_cfg,
            launched, probed, stages, builds, up, answers, cfg_log, copy_log,
            conns, scm, admin, success_count>>

Commands == {"help", "stop", "start", "build", "copy", "status", "restart",
             "quick", "full"}

Exes == {services[s].exe : s \in ServiceIds}

PortOf(exe) == services[CHOOSE s \in ServiceIds : services[s].exe = exe].port

\* a process: its executable name, the port it listens on (0: none), alive or not
Proc(exe, listens, alive) ==
    [exe |-> exe, port |-> IF listens THEN PortOf(exe) ELSE 0, alive |-> alive]

\* the operating system lets one process listen on a port
OneListenerPerPort(table) ==
    \A p, q \in 1..Len(table) :
        (p # q /\ table[p].alive /\ table[q].alive /\ table[p].port # 0)
            => table[p].port # table[q].port

\* the executables that may be running before the command starts: that of a
\* service an explicit list can name, and that of one no explicit list names
PreExes == {services[s].exe : s \in {"api-gateway", "chaos-backend"}}

\* pids are arbitrary: of the tables that differ only in the numbering of
\* their processes one is kept
Rank(proc) ==
    2 * (CHOOSE k \in 1..Len(ServiceKeys) : services[ServiceKeys[k]].exe = proc.exe)
      + (IF proc.port = 0 THEN 0 ELSE 1)

InitialTables ==
    {t \in SeqsUpTo({Proc(e, l, TRUE) : e \in PreExes, l \in BOOLEAN}, MaxPre) :
        /\ OneListenerPerPort(t)
        /\ \A p \in 1..Len(t) - 1 : Rank(t[p]) <= Rank(t[p + 1])}

\* everything the build, staging, start and wait steps may leave alone
stopvars == <<cur, matches, j, nsuccess, calls, gwait, terminated, killed, stops>>

\* what belongs to find_process_by_port run on its own and to the scripts
\* around `sc`
apart == <<conns, scm, admin, success_count>>

inputs == <<entry, command, service_ids, up, apart>>

\* what only wait_for_services changes
pollvars == <<left, status, answers>>

\* the environment gives n more adverse answers
Adverse(n) ==
    /\ faults + n <= MaxFaults
    /\ faults' = faults + n

Cost(b) == IF b THEN 1 ELSE 0

(***************************************************************************)
(* ProcessLocator: find_process_by_port, find_process_by_name.             *)
(***************************************************************************)
Min(S) == CHOOSE x \in S : \A y \in S : x <= y

Listeners(port, table) ==
    {p \in 1..Len(table) : table[p].alive /\ table[p].port = port}

\* `hidden`: the listeners whose psutil.Process(conn.pid) raises NoSuchProcess
\* or AccessDenied, and those after the point where the scan itself raised
find_process_by_port(port, table, hidden) ==
    LET found == Listeners(port, table) \ hidden
    IN  IF found = {} THEN 0 ELSE Min(found)

NameMatches(exe_name, table) ==
    {p \in 1..Len(table) : table[p].alive /\ table[p].exe = exe_name}

\* `skipped`: the matching processes whose inspection raises, and those after
\* the point where process_iter itself raised
find_process_by_name(exe_name, table, skipped) ==
    LET Keep(p) == p \in NameMatches(exe_name, table) \ skipped
    IN  SelectSeq([p \in 1..Len(table) |-> p], Keep)

(***************************************************************************)
(* TerminationController: the try block of stop_service_by_port and of     *)
(* stop_service_by_name.  `at` is the call being made, `outcome` how it    *)
(* ended; the value is the next call, or "True" / "False" when the try     *)
(* block is left with the process stopped / through `except Exception`.    *)
(***************************************************************************)
\* a variant that escalates to kill whatever the graceful wait found
stop_by_port_step_always_kill(at, outcome) ==
    CASE at = "terminate" -> IF outcome = "ok" THEN "wait" ELSE "False"
      [] at = "wait"      -> "kill"
      [] at = "kill"      -> IF outcome = "ok" THEN "kwait" ELSE "False"
      [] OTHER            -> IF outcome = "exited" THEN "True" ELSE "False"

stop_by_port_step(at, outcome) ==
    CASE at = "terminate" -> IF outcome = "ok" THEN "wait" ELSE "False"
      [] at = "wait"      -> IF outcome = "exited" THEN "True" ELSE "kill"
      [] at = "kill"      -> IF outcome = "ok" THEN "kwait" ELSE "False"
      [] OTHER            -> IF outcome = "exited" THEN "True" ELSE "False"

\* a variant whose wait after the kill has no timeout and is not left
stop_by_name_step_unbounded(at, outcome) ==
    CASE at = "terminate" -> IF outcome = "ok" THEN "wait" ELSE "False"
      [] at = "wait"      -> IF outcome = "exited" THEN "True" ELSE "kill"
      [] at = "kill"      -> IF outcome = "ok" THEN "kwait" ELSE "False"
      [] OTHER            -> "kwait"

stop_by_name_step(at, outcome) ==
    CASE at = "terminate" -> IF outcome = "ok" THEN "wait" ELSE "False"
      [] at = "wait"      -> IF outcome = "exited" THEN "True" ELSE "kill"
      [] at = "kill"      -> IF outcome = "ok" THEN "kwait" ELSE "False"
      [] OTHER            -> IF outcome = "exited" THEN "True" ELSE "False"

StopStep(m, at, outcome) ==
    IF m = "port" THEN stop_by_port_step(at, outcome)
    ELSE stop_by_name_step(at, outcome)

\* a variant that ignores the subset it is given
stop_ids_all(a) == ServiceKeys

\* the ids stop_all_services iterates over
stop_ids(a) == IF ~a.given THEN ServiceKeys ELSE a.ids

\* a variant in which the first failed port-based stop ends the loop
Goto_failing_fast(m, next) ==
    IF next \in {"True", "False"}
    THEN IF m = "port"
         THEN /\ pc' = "by_port"
              /\ success' = (success /\ next = "True")
              /\ stops' = Append(stops, <<"port", ids[i], next = "True">>)
              /\ i' = IF next = "True" THEN i + 1 ELSE Len(ids) + 1
              /\ UNCHANGED <<nsuccess, j>>
         ELSE /\ pc' = "name_loop"
              /\ nsuccess' = (nsuccess /\ next = "True")
              /\ j' = j + 1
              /\ UNCHANGED <<success, i, stops>>
    ELSE /\ pc' = m \o "_" \o next
         /\ UNCHANGED <<success, i, nsuccess, j, stops>>

\* Control after one call of the try block, for the process `cur`:
\*   by port, "True"/"False" is the value stop_service_by_port returns, and
\*   stop_all_services clears `success` on False and takes the next id;
\*   by name, "False" clears the local `success` and the loop takes the next
\*   process.
Goto(m, next) ==
    IF next \in {"True", "False"}
    THEN IF m = "port"
         THEN /\ pc' = "by_port"
              /\ success' = (success /\ next = "True")
              /\ stops' = Append(stops, <<"port", ids[i], next = "True">>)
              /\ i' = i + 1
              /\ UNCHANGED <<nsuccess, j>>
         ELSE /\ pc' = "name_loop"
              /\ nsuccess' = (nsuccess /\ next = "True")
              /\ j' = j + 1
              /\ UNCHANGED <<success, i, stops>>
    ELSE /\ pc' = m \o "_" \o next
         /\ UNCHANGED <<success, i, nsuccess, j, stops>>

\* process.terminate(): delivered, or raises because the process has exited
\* since it was located (NoSuchProcess) or may not be signalled (AccessDenied)
Terminate(m) ==
    /\ pc = m \o "_terminate"
    /\ \E outcome \in {"ok", "NoSuchProcess", "AccessDenied"} :
        /\ procs' = IF outcome = "NoSuchProcess"
                    THEN [procs EXCEPT ![cur].alive = FALSE] ELSE procs
        /\ Goto(m, StopStep(m, "terminate", outcome))
        /\ Adverse(Cost(outcome # "ok"))
    /\ calls' = Append(calls, "terminate")
    /\ terminated' = terminated \cup {cur}
    /\ UNCHANGED <<cur, matches, gwait, killed>>
    /\ UNCHANGED others

\* process.wait(timeout=10): the process exits in time, or TimeoutExpired
WaitGraceful(m) ==
    /\ pc = m \o "_wait"
    /\ \E outcome \in {"exited", "timeout"} :
        /\ procs' = IF outcome = "exited"
                    THEN [procs EXCEPT ![cur].alive = FALSE] ELSE procs
        /\ gwait' = outcome
        /\ Goto(m, StopStep(m, "wait", outcome))
        /\ Adverse(Cost(outcome = "timeout"))
    /\ UNCHANGED <<cur, matches, calls, terminated, killed>>
    /\ UNCHANGED others

\* process.kill(): delivered, or raises as terminate does
Kill(m) ==
    /\ pc = m \o "_kill"
    /\ \E outcome \in {"ok", "NoSuchProcess", "AccessDenied"} :
        /\ procs' = IF outcome = "NoSuchProcess"
                    THEN [procs EXCEPT ![cur].alive = FALSE] ELSE procs
        /\ Goto(m, StopStep(m, "kill", outcome))
        /\ Adverse(Cost(outcome # "ok"))
    /\ calls' = Append(calls, "kill")
    /\ killed' = killed \cup {cur}
    /\ UNCHANGED <<cur, matches, gwait, terminated>>
    /\ UNCHANGED others

\* process.wait(timeout=5): the process is gone, or TimeoutExpired is raised
\* inside the except clause and caught by `except Exception`
WaitForce(m) ==
    /\ pc = m \o "_kwait"
    /\ \E outcome \in {"exited", "timeout"} :
        /\ procs' = IF outcome = "exited"
                    THEN [procs EXCEPT ![cur].alive = FALSE] ELSE procs
        /\ Goto(m, StopStep(m, "kwait", outcome))
        /\ Adverse(Cost(outcome = "timeout"))
    /\ UNCHANGED <<cur, matches, calls, gwait, terminated, killed>>
    /\ UNCHANGED others

PortTerminate == Terminate("port")
PortWaitGraceful == WaitGraceful("port")
PortKill == Kill("port")
PortWaitForce == WaitForce("port")
NameTerminate == Terminate("name")
NameWaitGraceful == WaitGraceful("name")
NameKill == Kill("name")
NameWaitForce == WaitForce("name")

(***************************************************************************)
(* stop_all_services.                                                      *)
(***************************************************************************)
StopAllBegin ==
    /\ pc = "stop_all_services"
    /\ ids' = stop_ids(arg)
    /\ success' = TRUE
    /\ i' = 1
    /\ pc' = "by_port"
    /\ UNCHANGED <<entry, command, service_ids, stage, arg, ret, rets, result,
                   exit_code, procs, cur, matches, j, nsuccess, calls, gwait,
                   left, status, faults, dst_exe, dst_cfg, terminated,
                   killed, launched, probed, stages, builds, up, answers,
                   stops, cfg_log, copy_log, apart>>

\* one iteration of the loop "Stop by port first": stop_service_by_port up
\* to its `if process:`
PortNext ==
    /\ pc = "by_port"
    /\ i <= Len(ids)
    /\ IF ids[i] \notin ServiceIds
       THEN /\ i' = i + 1
            /\ UNCHANGED <<pc, cur, calls, gwait, faults, stops>>
       ELSE \E hidden \in SUBSET Listeners(services[ids[i]].port, procs) :
              LET process == find_process_by_port(services[ids[i]].port,
                                                  procs, hidden)
              IN  /\ Adverse(Cost(hidden # {}))
                  /\ IF process = 0
                     THEN /\ i' = i + 1
                          /\ stops' = Append(stops, <<"port", ids[i], TRUE>>)
                          /\ UNCHANGED <<pc, cur, calls, gwait>>
                     ELSE /\ cur' = process
                          /\ calls' = <<>>
                          /\ gwait' = "none"
                          /\ pc' = "port_terminate"
                          /\ UNCHANGED <<i, stops>>
    /\ UNCHANGED <<success, procs, matches, j, nsuccess, terminated, killed>>
    /\ UNCHANGED others

PortDone ==
    /\ pc = "by_port"
    /\ i > Len(ids)
    /\ pc' = "by_name"
    /\ i' = 1
    /\ UNCHANGED <<success, procs, cur, matches, j, nsuccess, calls, gwait,
                   terminated, killed, faults, stops>>
    /\ UNCHANGED others

\* one iteration of the loop "Also stop by executable name as backup":
\* stop_service_by_name up to its `if not processes:`
NameNext ==
    /\ pc = "by_name"
    /\ i <= Len(ids)
    /\ IF ids[i] \notin ServiceIds
       THEN /\ i' = i + 1
            /\ UNCHANGED <<pc, matches, j, nsuccess, faults, stops>>
       ELSE \E skipped \in SUBSET NameMatches(services[ids[i]].exe, procs) :
              LET processes == find_process_by_name(services[ids[i]].exe,
                                                    procs, skipped)
              IN  /\ Adverse(Cost(skipped # {}))
                  /\ IF processes = <<>>
                     THEN /\ i' = i + 1
                          /\ stops' = Append(stops, <<"name", ids[i], TRUE>>)
                          /\ UNCHANGED <<pc, matches, j, nsuccess>>
                     ELSE /\ matches' = processes
                          /\ nsuccess' = TRUE
                          /\ j' = 1
                          /\ pc' = "name_loop"
                          /\ UNCHANGED <<i, stops>>
    /\ UNCHANGED <<success, procs, cur, calls, gwait, terminated, killed>>
    /\ UNCHANGED others

\* `for process in processes:` and, after it, `return success`
NameLoop ==
    /\ pc = "name_loop"
    /\ IF j <= Len(matches)
       THEN /\ cur' = matches[j]
            /\ calls' = <<>>
            /\ gwait' = "none"
            /\ pc' = "name_terminate"
            /\ UNCHANGED <<success, i, stops>>
       ELSE /\ success' = (success /\ nsuccess)
            /\ stops' = Append(stops, <<"name", ids[i], nsuccess>>)
            /\ i' = i + 1
            /\ pc' = "by_name"
            /\ UNCHANGED <<cur, calls, gwait>>
    /\ UNCHANGED <<procs, matches, j, nsuccess, terminated, killed, faults>>
    /\ UNCHANGED others

\* time.sleep(2); return success
StopAllReturn ==
    /\ pc = "by_name"
    /\ i > Len(ids)
    /\ ret' = success
    /\ rets' = Append(rets, success)
    /\ pc' = "return"
    /\ UNCHANGED <<entry, command, service_ids, stage, arg, ids, i, success,
                   result, exit_code, procs, cur, matches, j, nsuccess, calls,
                   gwait, left, status, faults, dst_exe, dst_cfg,
                   terminated, killed, launched, probed, stages, builds, up,
                   answers, stops, cfg_log, copy_log, apart>>

\* `return value` of a ServiceUtils stage
Return(value) ==
    /\ ret' = value
    /\ rets' = Append(rets, value)
    /\ pc' = "return"

\* the ids build_services, copy_config_files and copy_services iterate over
all_or(a) == IF ~a.given THEN ServiceKeys ELSE a.ids

(***************************************************************************)
(* BuildCoordinator: build_services.                                       *)
(***************************************************************************)
\* subprocess.run(["cargo", "build", ...], timeout=300) ends with an exit
\* status, with TimeoutExpired or with another exception
BuildOutcomes == {"rc0", "rc1", "timeout", "exception"}

build_ok(outcome) == outcome = "rc0"

BuildBegin ==
    /\ pc = "build_services"
    /\ \E target_dir \in BOOLEAN :
        /\ Adverse(Cost(~target_dir))
        /\ IF ~target_dir
           THEN /\ Return(FALSE)
                /\ UNCHANGED <<ids, success, i>>
           ELSE /\ ids' = all_or(arg)
                /\ success' = TRUE
                /\ i' = 1
                /\ pc' = "build_loop"
                /\ UNCHANGED <<ret, rets>>
    /\ UNCHANGED <<inputs, pollvars, cfg_log, copy_log, stage, arg, result, exit_code,
                   procs, dst_exe, dst_cfg, launched, probed, stages, builds>>
    /\ UNCHANGED stopvars

BuildNext ==
    /\ pc = "build_loop"
    /\ i <= Len(ids)
    /\ IF ids[i] \notin ServiceIds
       THEN /\ success' = FALSE
            /\ UNCHANGED <<builds, faults>>
       ELSE \E outcome \in BuildOutcomes :
              /\ Adverse(Cost(outcome # "rc0"))
              /\ builds' = Append(builds, <<ids[i], outcome = "rc0">>)
              /\ success' = (success /\ build_ok(outcome))
    /\ i' = i + 1
    /\ UNCHANGED <<inputs, pollvars, cfg_log, copy_log, pc, stage, arg, ids, ret, rets,
                   result, exit_code, procs, dst_exe, dst_cfg, launched,
                   probed, stages>>
    /\ UNCHANGED stopvars

BuildReturn ==
    /\ pc = "build_loop"
    /\ i > Len(ids)
    /\ Return(success)
    /\ UNCHANGED <<inputs, pollvars, cfg_log, copy_log, stage, arg, ids, i, success,
                   result, exit_code, procs, faults, dst_exe, dst_cfg,
                   launched, probed, stages, builds>>
    /\ UNCHANGED stopvars

(***************************************************************************)
(* ArtifactStager: copy_config_files, copy_services.                       *)
(***************************************************************************)
\* the state of a staged file or directory
\*   "missing"  it does not exist
\*   "old"      it exists with contents from an earlier deployment
\*   "empty"    it exists with no contents (a zero-byte file)
\*   "new"      it has exactly the contents of its source
FileStates == {"missing", "old", "empty", "new"}

\* `dirs_ok`: project_root/services exists, and the service directory's
\* configs directory exists or mkdir created it
ConfigBegin ==
    /\ pc = "copy_config_files"
    /\ \E dirs_ok \in BOOLEAN :
        /\ Adverse(Cost(~dirs_ok))
        /\ IF ~dirs_ok
           THEN /\ Return(FALSE)
                /\ UNCHANGED <<ids, success, i>>
           ELSE /\ ids' = all_or(arg)
                /\ success' = TRUE
                /\ i' = 1
                /\ pc' = "config_loop"
                /\ UNCHANGED <<ret, rets>>
    /\ UNCHANGED <<inputs, pollvars, cfg_log, copy_log, stage, arg, result, exit_code,
                   procs, dst_exe, dst_cfg, launched, probed, stages, builds>>
    /\ UNCHANGED stopvars

\* a variant that copies into the target directory it finds, leaving the
\* files that are only there in place
copy_config_merging(target, source, raised) ==
    IF ~source THEN [ok |-> TRUE, target |-> target]
    ELSE CASE raised = "no" ->
                [ok |-> TRUE, target |-> IF target = "old" THEN "merged" ELSE "new"]
           [] raised = "rmtree" -> [ok |-> FALSE, target |-> target]
           [] OTHER             -> [ok |-> FALSE, target |-> "missing"]

\* a variant that counts a missing source directory as a failure
copy_config_strict(target, source, raised) ==
    IF ~source THEN [ok |-> FALSE, target |-> target]
    ELSE CASE raised = "no"     -> [ok |-> TRUE, target |-> "new"]
           [] raised = "rmtree" -> [ok |-> FALSE, target |-> target]
           [] OTHER             -> [ok |-> FALSE, target |-> "missing"]

\* the body of `for service_id in service_ids` of copy_config_files:
\*   source  whether source_config_dir exists
\*   raised  "no", or the call of the try block that raised
copy_config(target, source, raised) ==
    IF ~source THEN [ok |-> TRUE, target |-> target]
    ELSE CASE raised = "no"     -> [ok |-> TRUE, target |-> "new"]
           [] raised = "rmtree" -> [ok |-> FALSE, target |-> target]
           [] OTHER             -> [ok |-> FALSE, target |-> "missing"]

ConfigNext ==
    /\ pc = "config_loop"
    /\ i <= Len(ids)
    /\ IF ids[i] \notin ServiceIds
       THEN /\ success' = FALSE
            /\ cfg_log' = Append(cfg_log, <<ids[i], "unknown">>)
            /\ UNCHANGED <<dst_cfg, faults>>
       ELSE \E source \in BOOLEAN, raised \in {"no", "rmtree", "copytree"} :
              /\ ~source => raised = "no"
              /\ raised = "rmtree" => dst_cfg[ids[i]] # "missing"
              /\ Adverse(Cost(~source) + Cost(raised # "no"))
              /\ LET r == copy_config(dst_cfg[ids[i]], source, raised)
                 IN  /\ dst_cfg' = [dst_cfg EXCEPT ![ids[i]] = r.target]
                     /\ success' = (success /\ r.ok)
              /\ cfg_log' = Append(cfg_log,
                    <<ids[i], IF ~source THEN "no source"
                              ELSE IF raised = "no" THEN "copied" ELSE "raised">>)
    /\ i' = i + 1
    /\ UNCHANGED <<inputs, pollvars, copy_log, pc, stage, arg, ids, ret, rets,
                   result, exit_code, procs, dst_exe, launched, probed,
                   stages, builds>>
    /\ UNCHANGED stopvars

ConfigReturn ==
    /\ pc = "config_loop"
    /\ i > Len(ids)
    /\ Return(success)
    /\ UNCHANGED <<inputs, pollvars, cfg_log, copy_log, stage, arg, ids, i, success,
                   result, exit_code, procs, faults, dst_exe, dst_cfg,
                   launched, probed, stages, builds>>
    /\ UNCHANGED stopvars

\* the service directory exists whenever something is staged in it
ServiceDirMayBeMissing == \A s \in ServiceIds : dst_exe[s] = "missing"

\* target/release still exists when build_services has found it in this run
TargetDirMayBeMissing == "build_services" \notin Range(stages)

CopyBegin ==
    /\ pc = "copy_services"
    /\ \E target_dir \in BOOLEAN, service_dir \in BOOLEAN :
        /\ ~target_dir => TargetDirMayBeMissing
        /\ ~service_dir => ServiceDirMayBeMissing
        /\ Adverse(Cost(~target_dir) + Cost(~service_dir))
        /\ IF ~target_dir \/ ~service_dir
           THEN /\ Return(FALSE)
                /\ UNCHANGED <<ids, success, i>>
           ELSE /\ ids' = all_or(arg)
                /\ success' = TRUE
                /\ i' = 1
                /\ pc' = "copy_loop"
                /\ UNCHANGED <<ret, rets>>
    /\ UNCHANGED <<inputs, pollvars, cfg_log, copy_log, stage, arg, result, exit_code,
                   procs, dst_exe, dst_cfg, launched, probed, stages, builds>>
    /\ UNCHANGED stopvars

\* a variant that passes over a missing built executable as copy_config_files
\* passes over a missing source directory
copy_service_skipping(dest, source, raised) ==
    IF source = "missing" THEN [ok |-> TRUE, dest |-> dest]
    ELSE IF raised THEN [ok |-> FALSE, dest |-> dest]
    ELSE [ok |-> TRUE, dest |-> source]

\* the body of `for service_id in service_ids` of copy_services:
\*   source  the built executable: "missing", "empty" (zero bytes) or "new"
\*   raised  shutil.copy2 or dest_path.stat() raised
copy_service(dest, source, raised) ==
    IF source = "missing" THEN [ok |-> FALSE, dest |-> dest]
    ELSE IF raised THEN [ok |-> FALSE, dest |-> dest]
    ELSE [ok |-> TRUE, dest |-> source]

CopyNext ==
    /\ pc = "copy_loop"
    /\ i <= Len(ids)
    /\ IF ids[i] \notin ServiceIds
       THEN /\ success' = FALSE
            /\ copy_log' = Append(copy_log, <<ids[i], "unknown">>)
            /\ UNCHANGED <<dst_exe, faults>>
       ELSE \E source \in {"missing", "empty", "new"}, raised \in BOOLEAN :
              LET r == copy_service(dst_exe[ids[i]], source, raised)
              IN  /\ source = "missing" => ~raised
                  /\ Adverse(Cost(source # "new") + Cost(raised))
                  /\ dst_exe' = [dst_exe EXCEPT ![ids[i]] = r.dest]
                  /\ success' = (success /\ r.ok)
                  /\ copy_log' = Append(copy_log,
                        <<ids[i], IF source = "missing" THEN "no source"
                                  ELSE IF raised THEN "raised" ELSE "copied">>)
    /\ i' = i + 1
    /\ UNCHANGED <<inputs, pollvars, cfg_log, pc, stage, arg, ids, ret, rets,
                   result, exit_code, procs, dst_cfg, launched, probed,
                   stages, builds>>
    /\ UNCHANGED stopvars

CopyReturn ==
    /\ pc = "copy_loop"
    /\ i > Len(ids)
    /\ Return(success)
    /\ UNCHANGED <<inputs, pollvars, cfg_log, copy_log, stage, arg, ids, i, success,
                   result, exit_code, procs, faults, dst_exe, dst_cfg,
                   launched, probed, stages, builds>>
    /\ UNCHANGED stopvars

(***************************************************************************)
(* StartupSequencer: start_service, start_all_services.                    *)
(***************************************************************************)
StartupOrder == <<"user-management", "chaos-backend",
                  "content-management-service", "api-gateway">>

\* a variant that starts in the order of the registry
start_order_registry(a) == IF ~a.given THEN ServiceKeys ELSE a.ids

start_order(a) == IF ~a.given THEN StartupOrder ELSE a.ids

\* a variant that does not look for the executable
can_launch_unchecked(service_id, exes) == service_id \in ServiceIds

\* start_service before subprocess.Popen: the id is known and exe_path exists
can_launch(service_id, exes) ==
    service_id \in ServiceIds /\ exes[service_id] # "missing"

\* a variant without the break
start_loop_no_break(started) == "next"

\* `if not self.start_service(service_id): success = False; break`
start_loop_next(started) == IF started THEN "next" ELSE "break"

StartBegin ==
    /\ pc = "start_all_services"
    /\ ids' = start_order(arg)
    /\ success' = TRUE
    /\ i' = 1
    /\ pc' = "start_loop"
    /\ UNCHANGED <<inputs, pollvars, cfg_log, copy_log, stage, arg, ret, rets, result,
                   exit_code, procs, faults, dst_exe, dst_cfg, launched,
                   probed, stages, builds>>
    /\ UNCHANGED stopvars

\* control after start_service returned `started`
AfterStart(started) ==
    /\ success' = (success /\ started)
    /\ IF start_loop_next(started) = "break"
       THEN /\ Return(success')
            /\ UNCHANGED i
       ELSE /\ i' = i + 1
            /\ pc' = "start_loop"
            /\ UNCHANGED <<ret, rets>>

\* start_service up to subprocess.Popen; a zero-byte file cannot be executed
StartLaunch ==
    /\ pc = "start_loop"
    /\ i <= Len(ids)
    /\ IF ~can_launch(ids[i], dst_exe)
       THEN /\ AfterStart(FALSE)
            /\ UNCHANGED <<procs, launched, faults>>
       ELSE \E raised \in BOOLEAN :
              /\ dst_exe[ids[i]] = "empty" => raised
              /\ Adverse(Cost(raised /\ dst_exe[ids[i]] # "empty"))
              /\ IF raised
                 THEN /\ AfterStart(FALSE)
                      /\ UNCHANGED <<procs, launched>>
                 ELSE /\ procs' = Append(procs,
                             Proc(services[ids[i]].exe,
                                  Listeners(services[ids[i]].port, procs) = {},
                                  TRUE))
                      /\ launched' = Append(launched, ids[i])
                      /\ pc' = "start_poll"
                      /\ UNCHANGED <<success, i, ret, rets>>
    /\ UNCHANGED <<inputs, pollvars, cfg_log, copy_log, stage, arg, ids, result,
                   exit_code, dst_exe, dst_cfg, probed, stages, builds>>
    /\ UNCHANGED stopvars

\* time.sleep(2); process.poll() is None
StartPoll ==
    /\ pc = "start_poll"
    /\ \E running \in BOOLEAN :
        /\ procs' = [procs EXCEPT ![Len(procs)].alive = running]
        /\ AfterStart(running)
        /\ Adverse(Cost(~running))
    /\ UNCHANGED <<inputs, pollvars, cfg_log, copy_log, stage, arg, ids, result,
                   exit_code, dst_exe, dst_cfg, launched, probed, stages,
                   builds>>
    /\ UNCHANGED stopvars

StartReturn ==
    /\ pc = "start_loop"
    /\ i > Len(ids)
    /\ Return(success)
    /\ UNCHANGED <<inputs, pollvars, cfg_log, copy_log, stage, arg, ids, i, success,
                   result, exit_code, procs, faults, dst_exe, dst_cfg,
                   launched, probed, stages, builds>>
    /\ UNCHANGED stopvars

(***************************************************************************)
(* HealthPoller: check_service_health, get_service_status,                 *)
(* wait_for_services.                                                      *)
(***************************************************************************)
\* what requests.get(.../health, timeout=5) may do
Responses == {"200", "503", "error"}

\* a variant that takes any HTTP answer for healthy
check_service_health_any_status(response) == response # "error"

\* check_service_health, given the answer of the endpoint
check_service_health(response) == response = "200"

\* the services get_service_status sends a health request to
get_service_status_targets == ServiceIds

get_service_status(responses) ==
    [s \in get_service_status_targets |-> check_service_health(responses[s])]

\* a variant that counts every healthy service of the registry
healthy_count_registry(a, st) ==
    Cardinality({s \in DOMAIN st : st[s]})

healthy_count(a, st) ==
    IF Truthy(a)
    THEN Cardinality({k \in 1..Len(a.ids) :
                        a.ids[k] \in DOMAIN st /\ st[a.ids[k]]})
    ELSE Cardinality({s \in DOMAIN st : st[s]})

\* a variant that counts each requested id once
total_count_distinct(a, st) ==
    IF Truthy(a) THEN Cardinality(Range(a.ids)) ELSE Cardinality(DOMAIN st)

total_count(a, st) ==
    IF Truthy(a) THEN Len(a.ids) ELSE Cardinality(DOMAIN st)

\* what the endpoints may answer to one round of requests: 200 from those
\* that are up for good, anything from the others
Answers == {r \in [ServiceIds -> Responses] : \A s \in up : r[s] = "200"}

WaitBegin ==
    /\ pc = "wait_for_services"
    /\ left' \in 1..MaxRounds
    /\ pc' = "wait_loop"
    /\ UNCHANGED <<inputs, status, answers, cfg_log, copy_log, stage, arg, ids, i,
                   success, ret, rets, result, exit_code, procs, faults,
                   dst_exe, dst_cfg, launched, probed, stages, builds>>
    /\ UNCHANGED stopvars

\* one round of the while loop: the timeout has not elapsed
WaitPoll ==
    /\ pc = "wait_loop"
    /\ left > 0
    /\ \E responses \in Answers :
        /\ Adverse(Cardinality({s \in ServiceIds : responses[s] # "200"}))
        /\ answers' = responses
        /\ status' = get_service_status(responses)
        /\ probed' = probed \cup get_service_status_targets
        /\ IF healthy_count(arg, status') = total_count(arg, status')
           THEN /\ Return(TRUE)
                /\ UNCHANGED left
           ELSE /\ left' = left - 1
                /\ UNCHANGED <<pc, ret, rets>>
    /\ UNCHANGED <<inputs, cfg_log, copy_log, stage, arg, ids, i, success, result,
                   exit_code, procs, dst_exe, dst_cfg, launched, stages,
                   builds>>
    /\ UNCHANGED stopvars

\* time.time() - start_time >= timeout
WaitTimeout ==
    /\ pc = "wait_loop"
    /\ left = 0
    /\ Return(FALSE)
    /\ UNCHANGED <<inputs, pollvars, cfg_log, copy_log, stage, arg, ids, i, success,
                   result, exit_code, procs, faults, dst_exe, dst_cfg,
                   launched, probed, stages, builds>>
    /\ UNCHANGED stopvars

(***************************************************************************)
(* DeploymentOrchestrator: the methods of SimpleDeployer.  Each operator   *)
(* gives what the method does after the ServiceUtils stage `st` returned   *)
(* `r` ("" for the start of the method): the next stage it calls, or       *)
(* "True" / "False" when it returns.                                       *)
(***************************************************************************)
\* a variant that goes on to staging after a failed build
deploy_all_ignoring_build(st, r, skip_build) ==
    CASE st = "" -> "stop_all_services"
      [] st = "stop_all_services" ->
            IF ~r THEN "False"
            ELSE IF skip_build THEN "copy_config_files" ELSE "build_services"
      [] st = "build_services" -> "copy_config_files"
      [] st = "copy_config_files" -> IF ~r THEN "False" ELSE "copy_services"
      [] st = "copy_services" -> IF ~r THEN "False" ELSE "start_all_services"
      [] st = "start_all_services" -> IF ~r THEN "False" ELSE "wait_for_services"
      [] OTHER -> "final_status"

\* a variant in which a health-wait timeout fails the deployment
deploy_all_strict_wait(st, r, skip_build) ==
    CASE st = "" -> "stop_all_services"
      [] st = "stop_all_services" ->
            IF ~r THEN "False"
            ELSE IF skip_build THEN "copy_config_files" ELSE "build_services"
      [] st = "build_services" -> IF ~r THEN "False" ELSE "copy_config_files"
      [] st = "copy_config_files" -> IF ~r THEN "False" ELSE "copy_services"
      [] st = "copy_services" -> IF ~r THEN "False" ELSE "start_all_services"
      [] st = "start_all_services" -> IF ~r THEN "False" ELSE "wait_for_services"
      [] OTHER -> IF ~r THEN "False" ELSE "final_status"

\* a variant that stops the services again after a failed start
deploy_all_rolling_back(st, r, skip_build) ==
    CASE st = "" -> "stop_all_services"
      [] st = "stop_all_services" ->
            IF ~r THEN "False"
            ELSE IF skip_build THEN "copy_config_files" ELSE "build_services"
      [] st = "build_services" -> IF ~r THEN "False" ELSE "copy_config_files"
      [] st = "copy_config_files" -> IF ~r THEN "False" ELSE "copy_services"
      [] st = "copy_services" -> IF ~r THEN "False" ELSE "start_all_services"
      [] st = "start_all_services" ->
            IF ~r THEN "stop_all_services" ELSE "wait_for_services"
      [] OTHER -> "final_status"

deploy_all(st, r, skip_build) ==
    CASE st = "" -> "stop_all_services"
      [] st = "stop_all_services" ->
            IF ~r THEN "False"
            ELSE IF skip_build THEN "copy_config_files" ELSE "build_services"
      [] st = "build_services" -> IF ~r THEN "False" ELSE "copy_config_files"
      [] st = "copy_config_files" -> IF ~r THEN "False" ELSE "copy_services"
      [] st = "copy_services" -> IF ~r THEN "False" ELSE "start_all_services"
      [] st = "start_all_services" -> IF ~r THEN "False" ELSE "wait_for_services"
      [] OTHER -> "final_status"

restart_all(st, r) ==
    CASE st = "" -> "stop_all_services"
      [] st = "stop_all_services" -> IF ~r THEN "False" ELSE "start_all_services"
      [] st = "start_all_services" -> IF ~r THEN "False" ELSE "wait_for_services"
      [] OTHER -> "True"

stop_all(st, r) ==
    IF st = "" THEN "stop_all_services" ELSE IF r THEN "True" ELSE "False"

start_all(st, r) ==
    CASE st = "" -> "start_all_services"
      [] st = "start_all_services" -> IF ~r THEN "False" ELSE "wait_for_services"
      [] OTHER -> IF r THEN "True" ELSE "False"

build_all(st, r) ==
    IF st = "" THEN "build_services" ELSE IF r THEN "True" ELSE "False"

copy_all(st, r) ==
    IF st = "" THEN "copy_services" ELSE IF r THEN "True" ELSE "False"

\* the dispatch of main on `command`
Method(cmd, st, r) ==
    CASE cmd = "stop"    -> stop_all(st, r)
      [] cmd = "start"   -> start_all(st, r)
      [] cmd = "build"   -> build_all(st, r)
      [] cmd = "copy"    -> copy_all(st, r)
      [] cmd = "status"  -> "status"
      [] cmd = "restart" -> restart_all(st, r)
      [] cmd = "quick"   -> deploy_all(st, r, TRUE)
      [] OTHER           -> deploy_all(st, r, FALSE)

\* the service_ids argument a method passes to the stage it calls
stage_arg(cmd, st, sids) ==
    IF cmd = "restart" /\ st = "stop_all_services" THEN None ELSE sids

Stages == {"stop_all_services", "build_services", "copy_config_files",
           "copy_services", "start_all_services", "wait_for_services"}

Finished == IF entry = "main" THEN "exit" ELSE "done"

\* the method calls its next ServiceUtils stage
CallStage ==
    /\ pc \in {"dispatch", "return"}
    /\ LET st == IF pc = "dispatch" THEN "" ELSE stage
           next == Method(command, st, ret)
       IN  /\ next \in Stages
           /\ pc' = next
           /\ stage' = next
           /\ arg' = stage_arg(command, next, service_ids)
           /\ stages' = Append(stages, next)
    /\ UNCHANGED <<inputs, pollvars, cfg_log, copy_log, ids, i, success, ret, rets,
                   result, exit_code, procs, faults, dst_exe, dst_cfg,
                   launched, probed, builds>>
    /\ UNCHANGED stopvars

\* the locals of wait_for_services are gone once its caller has returned
Unwind ==
    /\ left' = 0
    /\ status' = [s \in ServiceIds |-> FALSE]
    /\ answers' = [s \in ServiceIds |-> "none"]

\* the method returns after a stage
MethodReturn ==
    /\ pc = "return"
    /\ LET next == Method(command, stage, ret)
       IN  /\ next \in {"True", "False"}
           /\ result' = next
    /\ pc' = Finished
    /\ Unwind
    /\ UNCHANGED <<inputs, cfg_log, copy_log, stage, arg, ids, i, success, ret, rets,
                   exit_code, procs, faults, dst_exe, dst_cfg, launched,
                   probed, stages, builds>>
    /\ UNCHANGED stopvars

\* the end of deploy_all: "Final service status", a get_service_status()
\* whose answers are only printed, then return True
FinalStatus ==
    /\ pc = "return"
    /\ Method(command, stage, ret) = "final_status"
    /\ probed' = probed \cup get_service_status_targets
    /\ result' = "True"
    /\ pc' = Finished
    /\ Unwind
    /\ UNCHANGED <<inputs, cfg_log, copy_log, stage, arg, ids, i, success, ret, rets,
                   exit_code, procs, faults, dst_exe, dst_cfg, launched,
                   stages, builds>>
    /\ UNCHANGED stopvars

\* SimpleDeployer.status: a get_service_status() whose answers are only
\* printed, then return True
Status ==
    /\ pc = "dispatch"
    /\ Method(command, "", ret) = "status"
    /\ probed' = probed \cup get_service_status_targets
    /\ result' = "True"
    /\ pc' = Finished
    /\ UNCHANGED <<inputs, pollvars, cfg_log, copy_log, stage, arg, ids, i,
                   success, ret, rets, exit_code, procs, faults, dst_exe,
                   dst_cfg, launched, stages, builds>>
    /\ UNCHANGED stopvars

(***************************************************************************)
(* main of simple_deploy.py.                                               *)
(***************************************************************************)
\* a variant that validates the first service id only
invalid_services_first(sids) ==
    IF sids.ids = <<>> THEN {} ELSE {sids.ids[1]} \ ServiceIds

invalid_services(sids) == Range(sids.ids) \ ServiceIds

\* `if command == "help": ... return`, which ends the process with code 0;
\* otherwise "Parse service arguments": sys.exit(1) on an invalid id
Main ==
    /\ pc = "main"
    /\ IF command = "help"
       THEN /\ exit_code' = 0
            /\ pc' = "done"
       ELSE IF service_ids.given /\ invalid_services(service_ids) # {}
       THEN /\ exit_code' = 1
            /\ pc' = "done"
       ELSE /\ pc' = "dispatch"
            /\ UNCHANGED exit_code
    /\ UNCHANGED <<inputs, pollvars, cfg_log, copy_log, stage, arg, ids, i, success,
                   ret, rets, result, procs, faults, dst_exe, dst_cfg,
                   launched, probed, stages, builds>>
    /\ UNCHANGED stopvars

\* sys.exit(0) if success else sys.exit(1)
Exit ==
    /\ pc = "exit"
    /\ exit_code' = IF result = "True" THEN 0 ELSE 1
    /\ pc' = "done"
    /\ UNCHANGED <<inputs, pollvars, cfg_log, copy_log, stage, arg, ids, i, success,
                   ret, rets, result, procs, faults, dst_exe, dst_cfg,
                   launched, probed, stages, builds>>
    /\ UNCHANGED stopvars

(***************************************************************************)
(* The specification.                                                      *)
(***************************************************************************)
\* sys.argv[2:] is a non-empty list or absent; a direct caller may pass any
\* list.  The lists main passes on unchanged are explored from main.
ArgLists(e) ==
    IF e = "main"
    THEN {None} \cup {List(l) : l \in SeqsUpTo(ArgIds, MaxIds) \ {<<>>}}
    ELSE {List(l) : l \in {q \in SeqsUpTo(ArgIds, MaxIds) :
                             q = <<>> \/ Range(q) \ ServiceIds # {}}}

Init ==
    /\ entry \in {"main", "call"}
    /\ command \in IF entry = "main" THEN Commands ELSE Commands \ {"help"}
    /\ service_ids \in ArgLists(entry)
    /\ pc = IF entry = "main" THEN "main" ELSE "dispatch"
    /\ procs \in InitialTables
    /\ faults = 0
    /\ \E deployed \in BOOLEAN :
        /\ dst_exe = [s \in ServiceIds |-> IF deployed THEN "old" ELSE "missing"]
        /\ dst_cfg = [s \in ServiceIds |-> IF deployed THEN "old" ELSE "missing"]
    /\ stage = ""
    /\ arg = None
    /\ ids = <<>>
    /\ i = 1
    /\ success = TRUE
    /\ ret = TRUE
    /\ rets = <<>>
    /\ result = "none"
    /\ exit_code = -1
    /\ cur = 0
    /\ matches = <<>>
    /\ j = 1
    /\ nsuccess = TRUE
    /\ calls = <<>>
    /\ gwait = "none"
    /\ left = 0
    /\ status = [s \in ServiceIds |-> FALSE]
    /\ terminated = {}
    /\ killed = {}
    /\ launched = <<>>
    /\ probed = {}
    /\ stages = <<>>
    /\ builds = <<>>
    /\ up = {}
    /\ answers = [s \in ServiceIds |-> "none"]
    /\ stops = <<>>
    /\ cfg_log = <<>>
    /\ copy_log = <<>>
    /\ conns = <<>>
    /\ scm = [n \in {} |-> "STOPPED"]
    /\ admin = FALSE
    /\ success_count = 0

\* the steps of main and of the methods that call ServiceUtils stages
NextStages ==
    \/ Main \/ CallStage \/ MethodReturn \/ FinalStatus \/ Exit
    \/ StopAllBegin \/ PortNext \/ PortDone \/ NameNext \/ NameLoop
    \/ StopAllReturn
    \/ PortTerminate \/ PortWaitGraceful \/ PortKill \/ PortWaitForce
    \/ NameTerminate \/ NameWaitGraceful \/ NameKill \/ NameWaitForce
    \/ BuildBegin \/ BuildNext \/ BuildReturn
    \/ ConfigBegin \/ ConfigNext \/ ConfigReturn
    \/ CopyBegin \/ CopyNext \/ CopyReturn
    \/ StartBegin \/ StartLaunch \/ StartPoll \/ StartReturn
    \/ WaitBegin \/ WaitPoll \/ WaitTimeout

Next == NextStages \/ Status

Spec == Init /\ [][Next]_vars

\* a quick or full deployment over an earlier installation, whose control
\* thread keeps running
InitDeploy ==
    /\ Init
    /\ command \in {"quick", "full"}
    /\ \A s \in ServiceIds : dst_exe[s] = "old"

SpecDeploy == InitDeploy /\ [][NextStages]_vars /\ WF_vars(NextStages)

(***************************************************************************)
(* copy_config_files called on its own, twice in a row.                    *)
(***************************************************************************)
ConfigLists == {None} \cup {List(l) : l \in SeqsUpTo(ArgIds, MaxIds)}

InitConfig ==
    /\ entry = "call"
    /\ command = "copy"
    /\ service_ids \in ConfigLists
    /\ arg = service_ids
    /\ pc = "copy_config_files"
    /\ stage = "copy_config_files"
    /\ stages = <<"copy_config_files">>
    /\ procs = <<>>
    /\ faults = 0
    /\ dst_exe = [s \in ServiceIds |-> "old"]
    /\ dst_cfg \in [ServiceIds -> {"missing", "old"}]
    /\ ids = <<>>
    /\ i = 1
    /\ success = TRUE
    /\ ret = TRUE
    /\ rets = <<>>
    /\ result = "none"
    /\ exit_code = -1
    /\ cur = 0
    /\ matches = <<>>
    /\ j = 1
    /\ nsuccess = TRUE
    /\ calls = <<>>
    /\ gwait = "none"
    /\ left = 0
    /\ status = [s \in ServiceIds |-> FALSE]
    /\ terminated = {}
    /\ killed = {}
    /\ launched = <<>>
    /\ probed = {}
    /\ builds = <<>>
    /\ up = {}
    /\ answers = [s \in ServiceIds |-> "none"]
    /\ stops = <<>>
    /\ cfg_log = <<>>
    /\ copy_log = <<>>
    /\ conns = <<>>
    /\ scm = [n \in {} |-> "STOPPED"]
    /\ admin = FALSE
    /\ success_count = 0

\* the caller calls copy_config_files again, with the same service_ids
ConfigAgain ==
    /\ pc = "return"
    /\ stage = "copy_config_files"
    /\ Len(stages) = 1
    /\ pc' = "copy_config_files"
    /\ stages' = Append(stages, "copy_config_files")
    /\ UNCHANGED <<inputs, pollvars, cfg_log, copy_log, stage, arg, ids, i, success, ret,
                   rets, result, exit_code, procs, faults, dst_exe, dst_cfg,
                   launched, probed, builds>>
    /\ UNCHANGED stopvars

NextConfig == ConfigBegin \/ ConfigNext \/ ConfigReturn \/ ConfigAgain

SpecConfig == InitConfig /\ [][NextConfig]_vars

(***************************************************************************)
(* wait_for_services called on its own, while the health endpoints come up *)
(* one after the other and stay up.                                        *)
(***************************************************************************)
WaitLists == {None} \cup {List(l) : l \in SeqsUpTo(ArgIds, MaxIds) \ {<<>>}}

InitWait ==
    /\ entry = "call"
    /\ command = "start"
    /\ service_ids \in WaitLists
    /\ arg = service_ids
    /\ pc = "wait_for_services"
    /\ stage = "wait_for_services"
    /\ stages = <<"wait_for_services">>
    /\ procs = <<>>
    /\ faults = 0
    /\ dst_exe = [s \in ServiceIds |-> "old"]
    /\ dst_cfg = [s \in ServiceIds |-> "old"]
    /\ ids = <<>>
    /\ i = 1
    /\ success = TRUE
    /\ ret = TRUE
    /\ rets = <<>>
    /\ result = "none"
    /\ exit_code = -1
    /\ cur = 0
    /\ matches = <<>>
    /\ j = 1
    /\ nsuccess = TRUE
    /\ calls = <<>>
    /\ gwait = "none"
    /\ left = 0
    /\ status = [s \in ServiceIds |-> FALSE]
    /\ terminated = {}
    /\ killed = {}
    /\ launched = <<>>
    /\ probed = {}
    /\ builds = <<>>
    /\ up = {}
    /\ answers = [s \in ServiceIds |-> "none"]
    /\ stops = <<>>
    /\ cfg_log = <<>>
    /\ copy_log = <<>>
    /\ conns = <<>>
    /\ scm = [n \in {} |-> "STOPPED"]
    /\ admin = FALSE
    /\ success_count = 0

\* a service has finished starting: from now on its /health answers 200
EndpointUp ==
    /\ pc \in {"wait_for_services", "wait_loop"}
    /\ \E s \in ServiceIds \ up : up' = up \cup {s}
    /\ UNCHANGED <<entry, command, service_ids, pc, stage, arg, ids, i, success,
                   ret, rets, result, exit_code, procs, pollvars, faults,
                   dst_exe, dst_cfg, launched, probed, stages, builds,
                   cfg_log, copy_log, apart>>
    /\ UNCHANGED stopvars

WaitStep == WaitBegin \/ WaitPoll \/ WaitTimeout

NextWait == WaitStep \/ EndpointUp

\* the polling loop is scheduled fairly
SpecWait == InitWait /\ [][NextWait]_vars /\ WF_vars(WaitStep)

(***************************************************************************)
(* start_all_services called on its own, while the processes it has        *)
(* launched and found alive may exit by themselves.                        *)
(***************************************************************************)
StartLists == {None} \cup {List(l) : l \in SeqsUpTo(ArgIds, MaxIds)}

InitStart ==
    /\ entry = "call"
    /\ command = "start"
    /\ service_ids \in StartLists
    /\ arg = service_ids
    /\ pc = "start_all_services"
    /\ stage = "start_all_services"
    /\ stages = <<"start_all_services">>
    /\ procs = <<>>
    /\ faults = 0
    /\ dst_exe \in [ServiceIds -> {"missing", "new"}]
    /\ dst_cfg = [s \in ServiceIds |-> "old"]
    /\ ids = <<>>
    /\ i = 1
    /\ success = TRUE
    /\ ret = TRUE
    /\ rets = <<>>
    /\ result = "none"
    /\ exit_code = -1
    /\ cur = 0
    /\ matches = <<>>
    /\ j = 1
    /\ nsuccess = TRUE
    /\ calls = <<>>
    /\ gwait = "none"
    /\ left = 0
    /\ status = [s \in ServiceIds |-> FALSE]
    /\ terminated = {}
    /\ killed = {}
    /\ launched = <<>>
    /\ probed = {}
    /\ builds = <<>>
    /\ up = {}
    /\ answers = [s \in ServiceIds |-> "none"]
    /\ stops = <<>>
    /\ cfg_log = <<>>
    /\ copy_log = <<>>
    /\ conns = <<>>
    /\ scm = [n \in {} |-> "STOPPED"]
    /\ admin = FALSE
    /\ success_count = 0

\* a process that start_service found alive at its check exits
ProcessExits ==
    /\ pc \in {"start_loop", "start_poll", "return"}
    /\ \E p \in 1..Len(procs) :
        /\ procs[p].alive
        /\ pc = "start_poll" => p < Len(procs)
        /\ procs' = [procs EXCEPT ![p].alive = FALSE]
    /\ UNCHANGED <<inputs, pollvars, cfg_log, copy_log, pc, stage, arg, ids, i,
                   success, ret, rets, result, exit_code, faults, dst_exe,
                   dst_cfg, launched, probed, stages, builds>>
    /\ UNCHANGED stopvars

NextStart ==
    StartBegin \/ StartLaunch \/ StartPoll \/ StartReturn \/ ProcessExits

SpecStart == InitStart /\ [][NextStart]_vars

(***************************************************************************)
(* find_process_by_port run on its own, connection by connection, over a   *)
(* table of connections.  The pid of the connection at position k is k.    *)
(***************************************************************************)
\* conn.status
ConnStatuses == {"LISTEN", "ESTABLISHED"}

\* what psutil.Process(conn.pid) does for the owner of a connection
Owners == {"ok", "NoSuchProcess", "AccessDenied"}

\* the ports of the services a port-based stop is made for here
ScanIds == {"api-gateway", "user-management"}

Conns ==
    [port : {services[s].port : s \in ScanIds}, status : ConnStatuses,
     owner : Owners]

\* a variant that gives up at the first listener it cannot inspect
scan_conn_giving_up(conn, port) ==
    IF conn.port = port /\ conn.status = "LISTEN"
    THEN IF conn.owner = "ok" THEN "return" ELSE "raise"
    ELSE "next"

\* the body of `for conn in psutil.net_connections(kind='inet')`
scan_conn(conn, port) ==
    IF conn.port = port /\ conn.status = "LISTEN"
    THEN IF conn.owner = "ok" THEN "return" ELSE "continue"
    ELSE "next"

InitLocate ==
    /\ entry = "call"
    /\ command = "stop"
    /\ service_ids = None
    /\ arg = None
    /\ pc = "find_process_by_port"
    /\ stage = "stop_all_services"
    /\ stages = <<"stop_all_services">>
    /\ ids \in {<<s>> : s \in ScanIds}
    /\ i = 1
    /\ conns \in SeqsUpTo(Conns, MaxConns)
    /\ procs = <<>>
    /\ faults = 0
    /\ dst_exe = [s \in ServiceIds |-> "old"]
    /\ dst_cfg = [s \in ServiceIds |-> "old"]
    /\ success = TRUE
    /\ ret = TRUE
    /\ rets = <<>>
    /\ result = "none"
    /\ exit_code = -1
    /\ cur = 0
    /\ matches = <<>>
    /\ j = 1
    /\ nsuccess = TRUE
    /\ calls = <<>>
    /\ gwait = "none"
    /\ left = 0
    /\ status = [s \in ServiceIds |-> FALSE]
    /\ terminated = {}
    /\ killed = {}
    /\ launched = <<>>
    /\ probed = {}
    /\ builds = <<>>
    /\ up = {}
    /\ answers = [s \in ServiceIds |-> "none"]
    /\ stops = <<>>
    /\ cfg_log = <<>>
    /\ copy_log = <<>>
    /\ scm = [n \in {} |-> "STOPPED"]
    /\ admin = FALSE
    /\ success_count = 0

\* everything find_process_by_port leaves alone
scanframe ==
    <<entry, command, service_ids, stage, arg, ids, i, success, ret, rets,
      result, exit_code, procs, matches, nsuccess, calls, gwait, left, status,
      dst_exe, dst_cfg, terminated, killed, launched, probed, stages, builds,
      up, answers, stops, cfg_log, copy_log, conns, scm, admin, success_count>>

\* psutil.net_connections(kind='inet') returns the table, or raises and the
\* `except Exception` logs a warning: return None
ScanBegin ==
    /\ pc = "find_process_by_port"
    /\ \E raised \in BOOLEAN :
        /\ Adverse(Cost(raised))
        /\ pc' = IF raised THEN "found" ELSE "scan"
    /\ j' = 1
    /\ cur' = 0
    /\ UNCHANGED scanframe

\* one connection of the table; an exception other than the two caught in
\* the loop leaves it for the outer `except Exception`: return None
ScanNext ==
    /\ pc = "scan"
    /\ j <= Len(conns)
    /\ LET at == scan_conn(conns[j], services[ids[i]].port)
       IN  CASE at = "return" -> cur' = j /\ pc' = "found" /\ j' = j
             [] at = "raise"  -> cur' = 0 /\ pc' = "found" /\ j' = j
             [] OTHER         -> j' = j + 1 /\ UNCHANGED <<cur, pc>>
    /\ UNCHANGED faults
    /\ UNCHANGED scanframe

\* the table is exhausted: return None
ScanEnd ==
    /\ pc = "scan"
    /\ j > Len(conns)
    /\ cur' = 0
    /\ pc' = "found"
    /\ UNCHANGED <<j, faults>>
    /\ UNCHANGED scanframe

NextLocate == ScanBegin \/ ScanNext \/ ScanEnd

\* the scan is not suspended for ever
SpecLocate == InitLocate /\ [][NextLocate]_vars /\ WF_vars(NextLocate)

(***************************************************************************)
(* The script-based orchestrator: deploy_services.py (ServiceDeployer)     *)
(* running stop_services.py, build_services.py, copy_services.py and       *)
(* start_services.py as child processes.  The services are Windows         *)
(* services, stopped and started with `sc`.                                *)
(***************************************************************************)
\* self.services of stop_services.py and of start_services.py
ManagedServices == <<"ChaosWorld-API-Gateway", "ChaosWorld-Backend",
                     "ChaosWorld-CMS", "ChaosWorld-UserManagement">>

ManagedNames == Range(ManagedServices)

Scripts == {"stop_services.py", "build_services.py", "copy_services.py",
            "start_services.py"}

\* `sc stop <name>`: a stopped service cannot be stopped (error 1062); a
\* running one is stopped unless the request is refused
sc_stop(state, refused) ==
    IF state = "RUNNING" /\ ~refused
    THEN [returncode |-> 0, state |-> "STOPPED"]
    ELSE [returncode |-> 1, state |-> state]

\* `sc start <name>`: a running service cannot be started (error 1056); a
\* stopped one is started unless the request is refused
sc_start(state, refused) ==
    IF state = "STOPPED" /\ ~refused
    THEN [returncode |-> 0, state |-> "RUNNING"]
    ELSE [returncode |-> 1, state |-> state]

\* ServiceDeployer.deploy_all after the script `st` ended with run_script
\* returning `r` ("" for the start): the next script, or the value returned
deploy_services(st, r, skip_build) ==
    CASE st = "" -> "stop_services.py"
      [] st = "stop_services.py" ->
            IF ~r THEN "False"
            ELSE IF skip_build THEN "copy_services.py" ELSE "build_services.py"
      [] st = "build_services.py" -> IF ~r THEN "False" ELSE "copy_services.py"
      [] st = "copy_services.py" -> IF ~r THEN "False" ELSE "start_services.py"
      [] OTHER -> IF r THEN "True" ELSE "False"

InitScripts ==
    /\ entry = "main"
    /\ command \in {"quick", "full"}
    /\ service_ids = None
    /\ arg = None
    /\ pc = "deploy_all"
    /\ stage = ""
    /\ stages = <<>>
    /\ scm \in [ManagedNames -> {"RUNNING", "STOPPED"}]
    /\ admin \in BOOLEAN
    /\ success_count = 0
    /\ ids = ManagedServices
    /\ i = 1
    /\ procs = <<>>
    /\ faults = 0
    /\ dst_exe = [s \in ServiceIds |-> "old"]
    /\ dst_cfg = [s \in ServiceIds |-> "old"]
    /\ success = TRUE
    /\ ret = TRUE
    /\ rets = <<>>
    /\ result = "none"
    /\ exit_code = -1
    /\ cur = 0
    /\ matches = <<>>
    /\ j = 1
    /\ nsuccess = TRUE
    /\ calls = <<>>
    /\ gwait = "none"
    /\ left = 0
    /\ status = [s \in ServiceIds |-> FALSE]
    /\ terminated = {}
    /\ killed = {}
    /\ launched = <<>>
    /\ probed = {}
    /\ builds = <<>>
    /\ up = {}
    /\ answers = [s \in ServiceIds |-> "none"]
    /\ stops = <<>>
    /\ cfg_log = <<>>
    /\ copy_log = <<>>
    /\ conns = <<>>

\* everything the scripts leave alone
scriptframe ==
    <<entry, command, service_ids, arg, ids, success, procs, dst_exe, dst_cfg,
      cur, matches, j, nsuccess, calls, gwait, left, status, terminated,
      killed, launched, probed, builds, up, answers, stops, cfg_log, copy_log,
      conns, admin>>

\* run_script returns whether the script exited with code 0
ScriptReturn(value) ==
    /\ ret' = value
    /\ rets' = Append(rets, value)
    /\ pc' = "script_return"

\* deploy_all runs its next script
RunScript ==
    /\ pc \in {"deploy_all", "script_return"}
    /\ LET next == deploy_services(stage, ret, command = "quick")
       IN  /\ next \in Scripts
           /\ pc' = next
           /\ stage' = next
           /\ stages' = Append(stages, next)
    /\ UNCHANGED <<i, ret, rets, result, exit_code, faults, scm, success_count>>
    /\ UNCHANGED scriptframe

\* deploy_all returns
DeployReturn ==
    /\ pc = "script_return"
    /\ LET next == deploy_services(stage, ret, command = "quick")
       IN  /\ next \in {"True", "False"}
           /\ result' = next
    /\ pc' = "exit"
    /\ UNCHANGED <<stage, stages, i, ret, rets, exit_code, faults, scm,
                   success_count>>
    /\ UNCHANGED scriptframe

\* stop_all_services and start_all_services of the scripts up to their loop:
\* without administrator rights they return False at once
ManagerBegin(script, loop) ==
    /\ pc = script
    /\ IF ~admin
       THEN /\ ScriptReturn(FALSE)
            /\ UNCHANGED <<i, success_count>>
       ELSE /\ success_count' = 0
            /\ i' = 1
            /\ pc' = loop
            /\ UNCHANGED <<ret, rets>>
    /\ UNCHANGED <<stage, stages, result, exit_code, faults, scm>>
    /\ UNCHANGED scriptframe

\* `if success_count > 0: ... return True`, and sys.exit(0 if success else 1)
ManagerEnd(loop) ==
    /\ pc = loop
    /\ i > Len(ids)
    /\ ScriptReturn(success_count > 0)
    /\ UNCHANGED <<stage, stages, i, result, exit_code, faults, scm,
                   success_count>>
    /\ UNCHANGED scriptframe

StopScriptBegin == ManagerBegin("stop_services.py", "sc_stop")

\* one iteration of `for service in self.services` of stop_services.py
ScStop ==
    /\ pc = "sc_stop"
    /\ i <= Len(ids)
    /\ \E refused \in BOOLEAN :
        LET r == sc_stop(scm[ids[i]], refused)
        IN  /\ refused => scm[ids[i]] = "RUNNING"
            /\ Adverse(Cost(refused))
            /\ scm' = [scm EXCEPT ![ids[i]] = r.state]
            /\ success_count' = success_count + Cost(r.returncode = 0)
    /\ i' = i + 1
    /\ UNCHANGED <<pc, stage, stages, ret, rets, result, exit_code>>
    /\ UNCHANGED scriptframe

StopScriptEnd == ManagerEnd("sc_stop")

StartScriptBegin == ManagerBegin("start_services.py", "sc_start")

\* one iteration of `for service in self.services` of start_services.py
ScStart ==
    /\ pc = "sc_start"
    /\ i <= Len(ids)
    /\ \E refused \in BOOLEAN :
        LET r == sc_start(scm[ids[i]], refused)
        IN  /\ refused => scm[ids[i]] = "STOPPED"
            /\ Adverse(Cost(refused))
            /\ scm' = [scm EXCEPT ![ids[i]] = r.state]
            /\ success_count' = success_count + Cost(r.returncode = 0)
    /\ i' = i + 1
    /\ UNCHANGED <<pc, stage, stages, ret, rets, result, exit_code>>
    /\ UNCHANGED scriptframe

\* the health checks that follow are only logged
StartScriptEnd == ManagerEnd("sc_start")

\* build_services.py and copy_services.py: the exit code of the script
OtherScript ==
    /\ pc \in {"build_services.py", "copy_services.py"}
    /\ \E returncode \in {0, 1} :
        /\ Adverse(returncode)
        /\ ScriptReturn(returncode = 0)
    /\ UNCHANGED <<stage, stages, i, result, exit_code, scm, success_count>>
    /\ UNCHANGED scriptframe

NextScripts ==
    \/ RunScript \/ DeployReturn \/ Exit
    \/ StopScriptBegin \/ ScStop \/ StopScriptEnd
    \/ StartScriptBegin \/ ScStart \/ StartScriptEnd
    \/ OtherScript

SpecScripts == InitScripts /\ [][NextScripts]_vars

(***************************************************************************)
(* Properties.                                                             *)
(***************************************************************************)
IsPrefix(a, b) == Len(a) <= Len(b) /\ a = SubSeq(b, 1, Len(a))

IsDeploy == command \in {"quick", "full"}

DeployOrder ==
    IF command = "quick"
    THEN <<"stop_all_services", "copy_config_files", "copy_services",
           "start_all_services", "wait_for_services">>
    ELSE <<"stop_all_services", "build_services", "copy_config_files",
           "copy_services", "start_all_services", "wait_for_services">>

\* the services a command with service_ids `a` is about
Targeted(a) == IF a.given THEN Range(a.ids) ELSE ServiceIds

\* C1: in a deploy_all run the stages are entered in the fixed order stop,
\* build (unless skipped), stage configuration, stage artifacts, start,
\* wait-for-health; a stage is entered only when the previous one has
\* returned, after its loop went through every targeted service, and only
\* when it returned success: after a failed stop, build, staging or start no
\* later stage is entered.
C1_Step ==
    IsDeploy =>
        /\ IsPrefix(stages', DeployOrder)
        /\ stages' # stages =>
            /\ pc \in {"dispatch", "return"}
            /\ pc = "return" =>
                /\ ret
                /\ i > Len(ids)
                /\ Range(ids) = Targeted(service_ids)

C1_StagesInOrder == [][C1_Step]_vars

C1_Witness ==
    /\ command = "full"
    /\ pc = "done"
    /\ result = "False"
    /\ stages = <<"stop_all_services", "build_services">>
    /\ rets = <<TRUE, FALSE>>

\* C2: deploy_all returns True exactly when stop, build (when not skipped),
\* configuration staging, artifact staging and start all returned success;
\* the value wait_for_services returned does not matter.
C2_ResultIffStages ==
    (IsDeploy /\ result # "none") =>
        (result = "True" <=>
            /\ stages = DeployOrder
            /\ Len(rets) = Len(DeployOrder)
            /\ \A k \in 1..Len(rets) - 1 : rets[k])

C2_Witness ==
    /\ IsDeploy
    /\ result = "True"
    /\ Len(rets) = Len(DeployOrder)
    /\ ~rets[Len(rets)]

\* C3: when a command is given an explicit subset S of service ids, no
\* service outside S is launched, signalled or sent a health request.
C3_OnlySubsetTouched ==
    (/\ command \in {"stop", "start", "quick", "full"}
     /\ Truthy(service_ids)
     /\ Range(service_ids.ids) \subseteq ServiceIds) =>
        /\ Range(launched) \subseteq Range(service_ids.ids)
        /\ \A p \in terminated \cup killed :
              \E s \in Range(service_ids.ids) \cap ServiceIds :
                  procs[p].exe = services[s].exe
        /\ probed \subseteq Range(service_ids.ids)

\* C4: restart_all with an explicit subset S never signals a process of a
\* service outside S.
C4_RestartScoped ==
    (/\ command = "restart"
     /\ Truthy(service_ids)
     /\ Range(service_ids.ids) \subseteq ServiceIds) =>
        \A p \in terminated \cup killed :
            \E s \in Range(service_ids.ids) \cap ServiceIds :
                procs[p].exe = services[s].exe

\* the order start_all_services is to launch in
ExpectedOrder ==
    IF service_ids.given THEN service_ids.ids
    ELSE <<"user-management", "chaos-backend", "content-management-service",
           "api-gateway">>

StartEnded == stage = "start_all_services" /\ pc \in {"return", "exit", "done"}

\* C5: when the launch at position i of the start sequence fails (unknown
\* id, missing executable, Popen raising, or the process gone at the check
\* after the launch), start_all_services returns False at once, and from
\* then on nothing at a later position has been launched.
C5_Step ==
    (\/ pc = "start_loop" /\ i <= Len(ids) /\ launched' = launched /\ pc' # pc
     \/ pc = "start_poll" /\ pc' # pc /\ ~procs'[Len(procs)].alive)
        => (pc' = "return" /\ ~ret' /\ i' = i)

C5_After ==
    (StartEnded /\ ~ret) =>
        /\ Len(launched) \in {i - 1, i}
        /\ launched = SubSeq(ExpectedOrder, 1, Len(launched))

C5_FailFast == [][C5_Step]_vars /\ []C5_After

C5_Witness ==
    /\ StartEnded
    /\ ~ret
    /\ i = 2
    /\ Len(ids) = 4
    /\ launched = <<"user-management", "chaos-backend">>

\* C6: start_all_services launches in the order user-management,
\* chaos-backend, content-management-service, api-gateway when given no
\* list, and in the caller's order when given one: what has been launched is
\* always an initial part of that order, all of it once start_all_services
\* has returned True, and every launch is followed by its check before the
\* next launch.
C6_Always ==
    /\ IsPrefix(launched, ExpectedOrder)
    /\ (StartEnded /\ ret) => launched = ExpectedOrder

C6_Step ==
    launched' # launched =>
        /\ pc = "start_loop"
        /\ pc' = "start_poll"
        /\ Len(launched) < Len(ExpectedOrder)
        /\ launched' = Append(launched, ExpectedOrder[Len(launched) + 1])

C6_StartOrder == []C6_Always /\ [][C6_Step]_vars

C6_Witness ==
    /\ StartEnded
    /\ ret
    /\ service_ids = List(<<"api-gateway", "user-management">>)
    /\ launched = <<"api-gateway", "user-management">>

InStop == stage = "stop_all_services"

PortSteps == {"port_terminate", "port_wait", "port_kill", "port_kwait"}

NameSteps == {"name_terminate", "name_wait", "name_kill", "name_kwait"}

TargetedExes == {services[s].exe : s \in Targeted(arg) \cap ServiceIds}

TargetedPorts == {services[s].port : s \in Targeted(arg) \cap ServiceIds}

\* no process listens on the port of a targeted service
NoTargetListening == \A p \in 1..Len(procs) : procs[p].port \notin TargetedPorts

\* no process has the executable name of a targeted service
NoTargetNamed == \A p \in 1..Len(procs) : procs[p].exe \notin TargetedExes

TState ==
    IF ~procs[cur].alive THEN "exited"
    ELSE CASE calls = <<>> -> "RUNNING"
           [] calls = <<"terminate">> -> "TERMINATE_REQUESTED"
           [] OTHER -> "FORCE_KILL_REQUESTED"

TSteps ==
    {<<"RUNNING", "TERMINATE_REQUESTED">>, <<"RUNNING", "exited">>,
     <<"TERMINATE_REQUESTED", "exited">>,
     <<"TERMINATE_REQUESTED", "FORCE_KILL_REQUESTED">>,
     <<"FORCE_KILL_REQUESTED", "exited">>}

\* C8: within one stop of one process, terminate and kill are each called at
\* most once, kill only after terminate and only after the graceful wait
\* timed out with the process alive; a process that exited within the
\* graceful wait is not killed; the process moves RUNNING ->
\* TERMINATE_REQUESTED -> (exited | FORCE_KILL_REQUESTED) -> exited.
C8_Always ==
    /\ calls \in {<<>>, <<"terminate">>, <<"terminate", "kill">>}
    /\ "kill" \in Range(calls) => gwait = "timeout"

C8_Step ==
    pc \in PortSteps \cup NameSteps =>
        /\ cur' = cur
        /\ calls' # calls /\ calls'[Len(calls')] = "kill" =>
            (cur \in terminated /\ gwait = "timeout" /\ procs[cur].alive)
        /\ TState' # TState => <<TState, TState'>> \in TSteps

C8_Escalation == []C8_Always /\ [][C8_Step]_vars

C8_Witness ==
    /\ cur # 0
    /\ calls = <<"terminate", "kill">>
    /\ gwait = "timeout"
    /\ ~procs[cur].alive

\* C9: stop_service_by_port, having located a process, returns False
\* exactly when the process survived both terminate and kill, and True in
\* every other case.
C9_Step ==
    (pc \in PortSteps /\ pc' = "by_port" /\ success) =>
        (success' <=> ~(procs'[cur].alive /\ calls' = <<"terminate", "kill">>))

C9_FailureIffSurvived == [][C9_Step]_vars

\* the ids build_services is asked to build
Requested == IF arg.given THEN arg.ids ELSE ServiceKeys

\* C10: build_services runs the build of every requested service, whatever
\* the earlier builds did, and returns True exactly when every one of them
\* exited with status zero.
C10_BestEffortBuild ==
    (stage = "build_services" /\ pc = "return"
        /\ Requested # <<>> /\ Range(Requested) \subseteq ServiceIds) =>
        /\ [k \in 1..Len(builds) |-> builds[k][1]] = Requested
        /\ ret <=> (\A k \in 1..Len(builds) : builds[k][2])

\* C11: copy_services never returns True from a run after which the
\* destination executable of some requested service is missing or has size
\* zero.
C11_StagedOrFailed ==
    (stage = "copy_services" /\ pc = "return" /\ ret
        /\ Range(Requested) \subseteq ServiceIds) =>
        \A s \in Range(Requested) : dst_exe[s] \notin {"missing", "empty"}

\* C12: simple_deploy.py exits with code 0 exactly when every stop, build,
\* staging and start stage its action called returned success; the result of
\* the health wait has no part in the exit code.
C12_ExitCode ==
    (entry = "main" /\ pc = "done" /\ stages # <<>>) =>
        (exit_code = 0 <=>
            \A k \in 1..Len(stages) :
                stages[k] # "wait_for_services" => rets[k])

\* the wait is still in its loop and at least one more round fits into the
\* timeout
RoundLeft == pc = "wait_for_services" \/ (pc = "wait_loop" /\ left > 0)

WaitReturned(value) ==
    stage = "wait_for_services" /\ pc = "return" /\ ret = value

\* C13: once the health endpoint of every targeted service answers 200 and
\* keeps doing so, and the timeout still leaves room for a polling round,
\* wait_for_services eventually returns True.
C13_EventuallyHealthy ==
    (RoundLeft /\ Targeted(arg) \subseteq up) ~> WaitReturned(TRUE)

\* the wait returned True after a round that had found a service unhealthy
C13_Witness ==
    /\ WaitReturned(TRUE)
    /\ arg.given
    /\ Targeted(arg) \subseteq up
    /\ left < MaxRounds
    /\ faults > 0

\* a polling round of wait_for_services has just been made
Polled == pc = "wait_loop" /\ left > 0 /\ (pc' = "return" \/ left' = left - 1)

AllHealthy(st) == \A s \in Targeted(arg) : s \in DOMAIN st /\ st[s]

\* C14: wait_for_services returns True in the first polling round that finds
\* every targeted service healthy in that same round, never when the round
\* it has just polled found a targeted service unhealthy, returns False only
\* once the timeout has elapsed, and always returns.
C14_Step ==
    /\ (Polled /\ AllHealthy(status')) => (pc' = "return" /\ ret')
    /\ (Polled /\ ~AllHealthy(status')) => (pc' = "wait_loop" /\ left' < left)
    /\ (pc = "wait_loop" /\ pc' = "return" /\ ~ret') => left = 0

C15_Step ==
    Polled =>
        /\ \A s \in ServiceIds : status'[s] <=> answers'[s] = "200"
        /\ (\E s \in Targeted(arg) \cap ServiceIds : answers'[s] # "200") =>
              (pc' = "wait_loop" /\ left' = left - 1)

C15_UnhealthyIsRetried == [][C15_Step]_vars

\* a request to a targeted service failed and the wait goes on
C15_Witness ==
    /\ pc = "wait_loop"
    /\ left > 0
    /\ \E s \in Targeted(arg) \cap ServiceIds : answers[s] = "error"

ServicesOnPort(port) == {s \in ServiceIds : services[s].port = port}

\* C17: no two descriptors of the registry have the same port, so the port
\* of the process a port-based stop has located, and the port of every
\* endpoint a health request went to, is the port of exactly one service.
\* (Nothing assigns to self.services after __init__: the registry is a
\* definition here, not a variable.)
C17_PortIdentifiesService ==
    /\ \A a, b \in ServiceIds : services[a].port = services[b].port => a = b
    /\ pc \in {"port_terminate", "port_wait", "port_kill", "port_kwait"} =>
          ServicesOnPort(procs[cur].port) = {ids[i]}
    /\ \A s \in probed : ServicesOnPort(services[s].port) = {s}

\* stop_service_by_port has located the process that listens on the port of
\* chaos-backend
C17_Witness ==
    /\ pc = "port_terminate"
    /\ procs[cur].port = services[ids[i]].port
    /\ ids[i] = "chaos-backend"

\* the requested ids that are services, in the order requested
RequestedServices == SelectSeq(Requested, LAMBDA s : s \in ServiceIds)

\* C18: stop_all_services makes the port-based stop of every targeted
\* service, in order, and then the name-based stop of every targeted service,
\* whatever the earlier stops returned, and returns True exactly when every
\* one of these stops returned True.
C18_PortThenName ==
    (stage = "stop_all_services" /\ pc = "return") =>
        LET n == Len(RequestedServices)
        IN  /\ Len(stops) = 2 * n
            /\ \A k \in 1..n :
                  /\ stops[k][1] = "port" /\ stops[k][2] = RequestedServices[k]
                  /\ stops[n + k][1] = "name"
                  /\ stops[n + k][2] = RequestedServices[k]
            /\ ret <=> \A k \in 1..Len(stops) : stops[k][3]

\* a stop failed and the stops after it were made all the same
C18_Witness ==
    /\ stage = "stop_all_services"
    /\ pc = "return"
    /\ \E k \in 1..Len(stops) - 1 : ~stops[k][3] /\ stops[k][1] = "port"

\* the loop of copy_config_files has just dealt with one id
ConfigLogged == Len(cfg_log') = Len(cfg_log) + 1

ConfigReturned == stage = "copy_config_files" /\ pc = "return"

\* C19: copy_config_files passes over a requested service that has no source
\* configuration directory: its target directory and the result so far stay
\* as they were, and the call returns True when every other requested
\* service was copied.
C19_Step ==
    (ConfigLogged /\ cfg_log'[Len(cfg_log')][2] = "no source") =>
        (dst_cfg' = dst_cfg /\ success' = success)

C19_Return ==
    (/\ ConfigReturned
     /\ Len(cfg_log) = Len(Requested)
     /\ \E k \in 1..Len(cfg_log) : cfg_log[k][2] = "no source"
     /\ \A k \in 1..Len(cfg_log) : cfg_log[k][2] \in {"no source", "copied"})
        => ret

Contents(target) ==
    CASE target = "missing" -> {}
      [] target = "old"     -> {"stale"}
      [] target = "new"     -> {"current"}
      [] OTHER              -> {"stale", "current"}

\* the ids the log of the first of two calls is about
FirstRun == 1..Len(all_or(arg))

SecondRun == Len(stages) = 2 /\ Len(rets) = 1 /\ rets[1]

\* the second call found the source directory of this entry's service in
\* another state than the first call did
SourceChanged(e) ==
    \E k \in FirstRun \cap DOMAIN cfg_log :
        /\ cfg_log[k][1] = e[1]
        /\ (cfg_log[k][2] = "no source") # (e[2] = "no source")

\* C20: after a copy_config_files that returned True the target directory of
\* every service it copied holds the files of the source directory and no
\* other file; a second call right after a successful one, with the source
\* directories as they were, changes no target directory unless it fails.
C20_Replaced ==
    (ConfigReturned /\ ret) =>
        \A k \in 1..Len(cfg_log) :
            cfg_log[k][2] = "copied" =>
                Contents(dst_cfg[cfg_log[k][1]]) = {"current"}

C20_Step ==
    (SecondRun /\ ConfigLogged /\ dst_cfg' # dst_cfg) =>
        (~success' \/ SourceChanged(cfg_log'[Len(cfg_log')]))

C20_ReplaceIdempotent == []C20_Replaced /\ [][C20_Step]_vars

\* both calls returned True, and both copied over an existing target
\* directory
C20_Witness ==
    /\ ConfigReturned
    /\ rets = <<TRUE, TRUE>>
    /\ Len(cfg_log) = 2 * Len(all_or(arg))
    /\ \E k \in FirstRun :
          /\ cfg_log[k][2] = "copied"
          /\ cfg_log[Len(all_or(arg)) + k] = cfg_log[k]

\* the loop of copy_services has just dealt with one id
CopyLogged == Len(copy_log') = Len(copy_log) + 1

CopyReturned == stage = "copy_services" /\ pc = "return"

\* C21: copy_services returns False whenever the built executable of a
\* requested service is missing; it neither creates nor changes the
\* destination file of that service, and it goes on to every other requested
\* service, whose destination then is the copy of its built executable.
C21_Step ==
    CopyLogged =>
        LET e == copy_log'[Len(copy_log')]
        IN  /\ e[1] = ids[i] /\ i' = i + 1 /\ pc' = "copy_loop"
            /\ e[2] = "no source" => (dst_exe' = dst_exe /\ ~success')
            /\ e[2] = "copied" =>
                  /\ dst_exe'[e[1]] \in {"new", "empty"}
                  /\ \A s \in ServiceIds \ {e[1]} : dst_exe'[s] = dst_exe[s]

C21_Return ==
    (CopyReturned /\ copy_log # <<>>) =>
        /\ [k \in 1..Len(copy_log) |-> copy_log[k][1]] = Requested
        /\ (\E k \in 1..Len(copy_log) : copy_log[k][2] = "no source") => ~ret

Inspectable ==
    {k \in 1..Len(conns) :
        /\ conns[k].port = services[ids[i]].port
        /\ conns[k].status = "LISTEN"
        /\ conns[k].owner = "ok"}

\* the process table the connections stand for, and the listeners hidden from
\* the scan
ConnTable ==
    [k \in 1..Len(conns) |->
        [exe |-> "", alive |-> TRUE,
         port |-> IF conns[k].status = "LISTEN" THEN conns[k].port ELSE 0]]

ConnHidden ==
    IF faults > 0 THEN 1..Len(conns)
    ELSE {k \in 1..Len(conns) : conns[k].owner # "ok"}

\* C22: find_process_by_port changes nothing and always returns: the process
\* of the first connection in LISTEN state on the port whose owner can be
\* inspected, passing over the listeners whose owner is gone or may not be
\* inspected, and none when there is no such connection or when
\* net_connections raised.
C22_Found ==
    pc = "found" =>
        /\ cur = (IF faults > 0 \/ Inspectable = {} THEN 0 ELSE Min(Inspectable))
        /\ cur = find_process_by_port(services[ids[i]].port, ConnTable,
                                      ConnHidden)

C22_Step == UNCHANGED scanframe /\ pc' \in {"scan", "found"}

C22_LocatorFailsSoft ==
    /\ []C22_Found
    /\ [][C22_Step]_vars
    /\ <>(pc = "found")

\* the scan passed over a listener on the port whose owner was gone and
\* returned the next one
C22_Witness ==
    /\ pc = "found"
    /\ cur > 1
    /\ \E k \in 1..cur - 1 :
          /\ conns[k].port = services[ids[i]].port
          /\ conns[k].status = "LISTEN"
          /\ conns[k].owner = "NoSuchProcess"

\* C23: start_service returns False without launching anything when the id
\* is unknown or the staged executable is missing, False when Popen raised,
\* False when the launched process had exited at the check that follows the
\* launch, and True in the one remaining case, the process being alive at
\* that check; a process that exits after the check changes nothing of what
\* was reported.
C23_Step ==
    /\ (pc = "start_loop" /\ i <= Len(ids) /\ pc' # pc) =>
          IF ids[i] \notin ServiceIds \/ dst_exe[ids[i]] = "missing"
          THEN launched' = launched /\ procs' = procs /\ pc' = "return" /\ ~ret'
          ELSE \/ /\ launched' = Append(launched, ids[i])
                  /\ pc' = "start_poll"
                  /\ success' /\ i' = i
               \/ launched' = launched /\ procs' = procs /\ pc' = "return" /\ ~ret'
    /\ (pc = "start_poll" /\ pc' # pc) =>
          IF procs'[Len(procs)].alive
          THEN pc' = "start_loop" /\ i' = i + 1 /\ success'
          ELSE pc' = "return" /\ ~ret'
    /\ (pc' = pc /\ procs' # procs) =>
          (success' = success /\ ret' = ret /\ i' = i /\ launched' = launched)

C23_After == (StartEnded /\ ret) => launched = ExpectedOrder

C23_StartReport == [][C23_Step]_vars /\ []C23_After

\* start_all_services returned True although a process it had started has
\* exited since
C23_Witness ==
    /\ StartEnded
    /\ ret
    /\ launched # <<>>
    /\ \E p \in 1..Len(procs) : ~procs[p].alive

\* C24: stop_service_by_name calls terminate on every process it found, one
\* after the other whatever the earlier ones did, and the value it returns
\* is True exactly when none of these processes is running any more.
C24_AllStoppedIffSuccess ==
    (pc = "name_loop" /\ j > Len(matches)) =>
        /\ \A k \in 1..Len(matches) : matches[k] \in terminated
        /\ nsuccess <=> \A k \in 1..Len(matches) : ~procs[matches[k]].alive

\* C25: when the process a stop has located exits by itself before
\* process.terminate() is called on it, the stop of that process counts as a
\* success: stop_service_by_port returns True, and stop_service_by_name
\* keeps its `success`.
C25_Step ==
    (/\ pc \in {"port_terminate", "name_terminate"}
     /\ procs[cur].alive
     /\ ~procs'[cur].alive) =>
        IF pc = "port_terminate"
        THEN pc' = "by_port" /\ success' = success /\ stops'[Len(stops')][3]
        ELSE pc' = "name_loop" /\ nsuccess' = nsuccess

C25_GoneIsSuccess == [][C25_Step]_vars

\* C26: in a run of simple_deploy.py whose service ids passed the validation
\* of main, no service id is passed to subprocess.Popen twice.
C26_LaunchedOnce ==
    entry = "main" =>
        \A k, l \in 1..Len(launched) : launched[k] = launched[l] => k = l

\* the pids of the processes launched in this run
LaunchedPids == (Len(procs) - Len(launched) + 1)..Len(procs)

\* C27: deploy_all undoes nothing when it aborts.  Once its stop stage has
\* returned it makes no terminate or kill call and no process it launched is
\* ever signalled; when it aborts at the build or at a staging stage nothing
\* has been launched, so what stage 1 stopped stays stopped; when it aborts
\* at the start stage every process launched before the failing launch is
\* still running.
C27_Step ==
    (IsDeploy /\ Len(stages) >= 2) =>
        /\ terminated' = terminated
        /\ killed' = killed
        /\ \A p \in 1..Len(procs) :
              procs'[p] # procs[p] => (pc = "start_poll" /\ p = Len(procs))

C27_Always ==
    IsDeploy =>
        /\ (terminated \cup killed) \cap LaunchedPids = {}
        /\ (result = "False" /\ stage # "start_all_services") =>
              (launched = <<>> /\ LaunchedPids = {})
        /\ (result = "False" /\ stage = "start_all_services") =>
              \A p \in LaunchedPids : p < Len(procs) => procs[p].alive

C27_NoRollback == [][C27_Step]_vars /\ []C27_Always

\* a deployment that had stopped a running process aborted at the second
\* launch and left the first launched process running
C27_Witness ==
    /\ IsDeploy
    /\ result = "False"
    /\ stage = "start_all_services"
    /\ Len(launched) = 2
    /\ ~procs[Len(procs)].alive
    /\ procs[Len(procs) - 1].alive
    /\ \E p \in terminated : ~procs[p].alive

\* C28: a ServiceUtils stage whose list of service ids holds an id that is
\* not in the registry returns False, and nothing is launched, built or
\* probed for such an id.
C28_UnknownIdFails ==
    /\ (pc = "return" /\ arg.given /\ Range(arg.ids) \ ServiceIds # {}) => ~ret
    /\ Range(launched) \subseteq ServiceIds
    /\ \A k \in 1..Len(builds) : builds[k][1] \in ServiceIds
    /\ probed \subseteq ServiceIds

UnknownGiven == service_ids.given /\ Range(service_ids.ids) \ ServiceIds # {}

\* no stop, build, staging, start or health-check action has been made
NoAction ==
    /\ stages = <<>>
    /\ terminated = {} /\ killed = {} /\ stops = <<>>
    /\ builds = <<>>
    /\ cfg_log = <<>> /\ copy_log = <<>>
    /\ launched = <<>>
    /\ probed = {}

\* C29 as stated: simple_deploy.py given a service id that is not in the
\* registry ends with a non-zero exit code and without any action.
C29_Original ==
    (entry = "main" /\ UnknownGiven) =>
        /\ NoAction
        /\ pc = "done" => exit_code # 0

\* C29, amended: simple_deploy.py given a service id that is not in the
\* registry performs no action on any service, whatever the command and the
\* other ids; it exits with code 1, unless the command is help, which prints
\* the usage before the ids are looked at and ends with code 0.
C29_InvalidIdRejected ==
    (entry = "main" /\ UnknownGiven) =>
        /\ NoAction
        /\ pc \in {"main", "done"}
        /\ pc = "done" => exit_code = (IF command = "help" THEN 0 ELSE 1)

\* a quick deployment of a known and an unknown service was rejected
C29_Witness ==
    /\ entry = "main"
    /\ command = "quick"
    /\ service_ids = List(<<"api-gateway", UnknownId>>)
    /\ pc = "done"
    /\ exit_code = 1
    /\ NoAction
    /\ \E p \in 1..Len(procs) : procs[p].alive

ScriptReturned(script) == stage = script /\ pc = "script_return"

AllManaged(state) == \A n \in ManagedNames : scm[n] = state

\* C30: in the script-based orchestrator, run with administrator rights,
\* stop_services.py succeeds when it leaves every managed service stopped,
\* those that were stopped already included, so that the deployment goes on
\* to the next script; and stop_services.py and start_services.py succeed
\* only when every managed service is stopped, respectively running.
C30_ScriptsAllOrNothing ==
    admin =>
        /\ (ScriptReturned("stop_services.py") /\ AllManaged("STOPPED")) => ret
        /\ (ScriptReturned("stop_services.py") /\ ret) => AllManaged("STOPPED")
        /\ (ScriptReturned("start_services.py") /\ ret) => AllManaged("RUNNING")

====
